---- MODULE Spec2Model ----
(***************************************************************************)
(* Client-side prediction and server reconciliation (PredictionSystem)     *)
(* together with the parts of Player it drives.                            *)
(*                                                                         *)
(* Numbers: JavaScript doubles are modelled in fixed point, one unit of    *)
(* the program being 1000 model units (positions, velocities, factors),    *)
(* every product rounded to the nearest model unit.  Times are in ms.      *)
(***************************************************************************)
EXTENDS Integers, Sequences, FiniteSets, TLC

(* ------------------------------ bounds --------------------------------- *)
MaxInputs == 3
MaxTime == 1000
MaxReconciliations == 1

(* ------------------------- program constants --------------------------- *)
positionReconciliationThreshold == 200
correctionFactorGround == 150
correctionFactorAir == 100
velocityInterpolationFactor == 200
stopDampingFactor == 900
stopThreshold == 100
MOVE_SPEED == 15000
PendingHorizon == 1000
JumpCooldownDelay == 500
JumpResetDelay == 1000
AttackDelay == 800
DefaultJumpDuration == 1000
JumpBuffer == 200

(* ------------------------------ numbers -------------------------------- *)
Abs(n) == IF n < 0 THEN -n ELSE n

\* n / d rounded to the nearest integer, halves away from zero (d > 0)
RoundDiv(n, d) ==
    IF n >= 0 THEN (2 * n + d) \div (2 * d) ELSE -((2 * (-n) + d) \div (2 * d))

\* v * f for a factor f given in thousandths
Times(v, f) == RoundDiv(v * f, 1000)

Vec(x, y, z) == [x |-> x, y |-> y, z |-> z]

DistanceSquared(a, b) ==
    (b.x - a.x) * (b.x - a.x) + (b.y - a.y) * (b.y - a.y)
        + (b.z - a.z) * (b.z - a.z)

(* ------------------------------ inputs --------------------------------- *)
Movement(p, f, b, l, r) ==
    [present |-> p, forward |-> f, backward |-> b, left |-> l, right |-> r]

NullMovement == Movement(FALSE, FALSE, FALSE, FALSE, FALSE)

\* the movement objects the frame loop hands over: none at all, no key held,
\* forward, forward+backward (cancelling), forward+right (diagonal)
Movements ==
    { NullMovement,
      Movement(TRUE, FALSE, FALSE, FALSE, FALSE),
      Movement(TRUE, TRUE, FALSE, FALSE, FALSE),
      Movement(TRUE, TRUE, TRUE, FALSE, FALSE),
      Movement(TRUE, TRUE, FALSE, FALSE, TRUE) }

Inputs == [movement : Movements, jump : BOOLEAN]

NoKeys == Movement(TRUE, FALSE, FALSE, FALSE, FALSE)

Forward == Movement(TRUE, TRUE, FALSE, FALSE, FALSE)

Input(m, j) == [movement |-> m, jump |-> j]

\* the inputs of a frame loop that moves: no key held, forward held
MoveInputs == {Input(NoKeys, FALSE), Input(Forward, FALSE)}

\* the inputs of a frame loop that jumps: jump pressed, forward held
JumpInputs == {Input(NoKeys, TRUE), Input(Forward, FALSE)}

IsMovementInput(input) ==
    /\ input.movement.present
    /\ \/ input.movement.forward
       \/ input.movement.backward
       \/ input.movement.left
       \/ input.movement.right

Direction(m) ==
    [x |-> (IF m.right THEN 1 ELSE 0) - (IF m.left THEN 1 ELSE 0),
     z |-> (IF m.backward THEN 1 ELSE 0) - (IF m.forward THEN 1 ELSE 0)]

\* horizontal camera basis for a yaw of k quarter turns
CameraForward(k) ==
    CASE k = 0 -> [x |-> 0, z |-> -1]
      [] k = 1 -> [x |-> -1, z |-> 0]
      [] k = 2 -> [x |-> 0, z |-> 1]
      [] OTHER -> [x |-> 1, z |-> 0]

CameraRight(k) ==
    CASE k = 0 -> [x |-> 1, z |-> 0]
      [] k = 1 -> [x |-> 0, z |-> -1]
      [] k = 2 -> [x |-> -1, z |-> 0]
      [] OTHER -> [x |-> 0, z |-> 1]

\* finalDirection before normalize(), then the target velocity: a unit
\* axis gives MOVE_SPEED, a diagonal gives MOVE_SPEED / sqrt(2)
TargetVelocity(dir, k) ==
    LET fx == CameraForward(k).x * (-dir.z) + CameraRight(k).x * dir.x
        fz == CameraForward(k).z * (-dir.z) + CameraRight(k).z * dir.x
        speed == IF fx # 0 /\ fz # 0 THEN Times(MOVE_SPEED, 707) ELSE MOVE_SPEED
    IN  [x |-> fx * speed, z |-> fz * speed]

(* ------------------------------- state --------------------------------- *)
VARIABLES
    \* PredictionSystem fields
    inputSequence, pendingInputs, lastProcessedInput,
    reconciliationEnabled, predictionEnabled,
    isJumping, jumpCooldown, jumpStartTime,
    lastInputAppliedTime, noInputDuration, velocityDampingActive,
    lastMovementInput,
    reconciliationCount, lastReconciliationTime, averageCorrection,
    \* game.player (Player) and its physics body
    hasPlayer, hasBody, playerIsAttacking, playerIsJumping, jumpDuration,
    position, velocity,
    \* game: camera, ground contact, network connection
    camera, onGround, connected,
    \* Date.now() and the pending setTimeout callbacks, in scheduling order
    now, timers,
    \* what the last operation did (its return value, the notifications it
    \* sent, the entries it replayed, the acknowledgment and position of the
    \* snapshot it was given) and the values processInput has returned
    obs, returned

psVars ==
    <<inputSequence, pendingInputs, lastProcessedInput, reconciliationEnabled,
      predictionEnabled, isJumping, jumpCooldown, jumpStartTime,
      lastInputAppliedTime, noInputDuration, velocityDampingActive,
      lastMovementInput, reconciliationCount, lastReconciliationTime,
      averageCorrection>>

playerVars ==
    <<hasPlayer, hasBody, playerIsAttacking, playerIsJumping, jumpDuration,
      position, velocity>>

gameVars == <<camera, onGround, connected>>

vars == <<psVars, playerVars, gameVars, now, timers, obs, returned>>

Timer(kind, due) == [kind |-> kind, due |-> due]

NoCamera == [present |-> FALSE, yaw |-> 0]

Camera(k) == [present |-> TRUE, yaw |-> k]

Obs(op) ==
    [op |-> op, ret |-> 0, sendJump |-> 0, intent |-> 0,
     replaySendJump |-> 0, replayIntent |-> 0, replayed |-> <<>>,
     corrected |-> FALSE, damped |-> 0, skipped |-> FALSE, removed |-> 0,
     ack |-> 0, target |-> Vec(0, 0, 0), shape |-> "none",
     raised |-> FALSE, caught |-> FALSE]

(* --------------- the state applyInput reads and writes ----------------- *)
\* the fields applyInput and stopMovement touch, gathered in one record so
\* that replay can thread them through the ledger; replaying is set while
\* processServerUpdate runs its replay loop
Cur(op) ==
    [velocity |-> velocity,
     lastInputAppliedTime |-> lastInputAppliedTime,
     noInputDuration |-> noInputDuration,
     velocityDampingActive |-> velocityDampingActive,
     isJumping |-> isJumping,
     jumpCooldown |-> jumpCooldown,
     jumpStartTime |-> jumpStartTime,
     playerIsJumping |-> playerIsJumping,
     timers |-> timers,
     obs |-> Obs(op),
     replaying |-> FALSE]

\* Player.setMovementIntent: the notification is counted
SetMovementIntent(s) ==
    [s EXCEPT !.obs.intent = @ + 1,
              !.obs.replayIntent = IF s.replaying THEN @ + 1 ELSE @]

\* networkManager.sendJump: the notification is counted
SendJump(s) ==
    [s EXCEPT !.obs.sendJump = @ + 1,
              !.obs.replaySendJump = IF s.replaying THEN @ + 1 ELSE @]

\* never snaps a small velocity to zero
DampMutant(v) == Times(v, stopDampingFactor)

Damp(v) ==
    LET newVel == Times(v, stopDampingFactor)
    IN  IF Abs(newVel) < stopThreshold THEN 0 ELSE newVel

\* stops the body in the air as well
DeceleratedMutant(s) ==
    [s EXCEPT !.velocity = Vec(Damp(s.velocity.x), 0, Damp(s.velocity.z)),
              !.velocityDampingActive = TRUE,
              !.obs.damped = @ + 1]

\* stopMovement, lines 382-403: up to the idle intent
Decelerated(s) ==
    [s EXCEPT !.velocity = Vec(Damp(s.velocity.x), s.velocity.y,
                               Damp(s.velocity.z)),
              !.velocityDampingActive = TRUE,
              !.obs.damped = @ + 1]

StopMovement(s) ==
    IF ~hasPlayer \/ ~hasBody THEN s
    ELSE SetMovementIntent(Decelerated(s))

\* Player.jump
PlayerJump(s) ==
    IF s.playerIsJumping THEN s
    ELSE [s EXCEPT !.playerIsJumping = TRUE,
                   !.timers = Append(@, Timer("playerJump", now + jumpDuration))]

Interpolate(cur, target) ==
    cur + Times(target - cur, velocityInterpolationFactor)

\* applyInput, lines 298-325: up to the movement intent
Accelerated(s, input) ==
    LET target == TargetVelocity(Direction(input.movement), camera.yaw)
    IN  [s EXCEPT !.velocity = Vec(Interpolate(s.velocity.x, target.x),
                                   s.velocity.y,
                                   Interpolate(s.velocity.z, target.z)),
                  !.lastInputAppliedTime = now,
                  !.noInputDuration = 0,
                  !.velocityDampingActive = FALSE]

\* the attack does not hold the damping back
HandleMovementMutant(s, input, isReconciliation) ==
    LET dir == Direction(input.movement)
        moved == Accelerated(s, input)
    IN  IF input.movement.present /\ (dir.x # 0 \/ dir.z # 0)
        THEN IF ~isReconciliation /\ hasPlayer THEN SetMovementIntent(moved)
             ELSE moved
        ELSE StopMovement(s)

\* applyInput, lines 270-346: horizontal movement
HandleMovement(s, input, isReconciliation) ==
    LET dir == Direction(input.movement)
        moved == Accelerated(s, input)
    IN  IF input.movement.present /\ (dir.x # 0 \/ dir.z # 0)
        THEN IF ~isReconciliation /\ hasPlayer THEN SetMovementIntent(moved)
             ELSE moved
        ELSE IF ~playerIsAttacking THEN StopMovement(s) ELSE s

\* jumps again while the previous jump is still under way
HandleJumpMutant(s, input) ==
    IF input.jump /\ ~s.jumpCooldown /\ onGround
    THEN LET j == PlayerJump([s EXCEPT !.isJumping = TRUE,
                                       !.jumpStartTime = now])
             n == IF connected THEN SendJump(j) ELSE j
         IN  [n EXCEPT !.jumpCooldown = TRUE,
                       !.timers = @ \o <<Timer("jumpCooldown", now + JumpCooldownDelay),
                                         Timer("jumpReset", now + JumpResetDelay)>>]
    ELSE s

\* the jump state is reset together with the cooldown
HandleJumpShortReset(s, input) ==
    IF input.jump /\ ~s.isJumping /\ ~s.jumpCooldown /\ onGround
    THEN LET j == PlayerJump([s EXCEPT !.isJumping = TRUE,
                                       !.jumpStartTime = now])
             n == IF connected THEN SendJump(j) ELSE j
         IN  [n EXCEPT !.jumpCooldown = TRUE,
                       !.timers = @ \o <<Timer("jumpCooldown", now + JumpCooldownDelay),
                                         Timer("jumpReset", now + JumpCooldownDelay)>>]
    ELSE s

\* applyInput, lines 348-370: jumping
HandleJump(s, input) ==
    IF input.jump /\ ~s.isJumping /\ ~s.jumpCooldown /\ onGround
    THEN LET j == PlayerJump([s EXCEPT !.isJumping = TRUE,
                                       !.jumpStartTime = now])
             n == IF connected THEN SendJump(j) ELSE j
         IN  [n EXCEPT !.jumpCooldown = TRUE,
                       !.timers = @ \o <<Timer("jumpCooldown", now + JumpCooldownDelay),
                                         Timer("jumpReset", now + JumpResetDelay)>>]
    ELSE s

ApplyInput(s, input, isReconciliation) ==
    IF ~hasPlayer \/ ~hasBody THEN s
    ELSE IF input.movement.present /\ ~camera.present THEN s
    ELSE HandleJump(HandleMovement(s, input, isReconciliation), input)

(* ------------------- applyInput, a collaborator raising ---------------- *)
\* the collaborator calls of applyInput, in the order it makes them:
\* body.isActive (264), camera.quaternion (283), body.getLinearVelocity /
\* setLinearVelocity (299-320, 382-401), player.setMovementIntent (329,
\* 408), game.isPlayerOnGround (349), player.jump (352),
\* networkManager.sendJump (356)
Faults ==
    {"activate", "camera", "velocity", "intent", "ground", "jump", "sendJump"}

\* line 371: the error is caught; what was assigned before it stays
Caught(s) == [s EXCEPT !.obs.caught = TRUE]

MovementThrowing(s, input, fault) ==
    LET dir == Direction(input.movement)
    IN  IF input.movement.present /\ fault = "camera" THEN Caught(s)
        ELSE IF input.movement.present /\ (dir.x # 0 \/ dir.z # 0)
        THEN IF fault = "velocity" THEN Caught(s)
             ELSE IF fault = "intent" /\ hasPlayer
                  THEN Caught(Accelerated(s, input))
             ELSE HandleMovement(s, input, FALSE)
        ELSE IF playerIsAttacking THEN s
             ELSE IF fault = "velocity" THEN Caught(s)
             ELSE IF fault = "intent" THEN Caught(Decelerated(s))
             ELSE StopMovement(s)

JumpThrowing(s, input, fault) ==
    IF ~(input.jump /\ ~s.isJumping /\ ~s.jumpCooldown) THEN s
    ELSE IF fault = "ground" THEN Caught(s)
    ELSE IF ~onGround THEN s
    ELSE LET started == [s EXCEPT !.isJumping = TRUE, !.jumpStartTime = now]
         IN  IF fault = "jump" THEN Caught(started)
             ELSE IF fault = "sendJump" /\ connected
                  THEN Caught(PlayerJump(started))
             ELSE HandleJump(s, input)

ApplyInputThrowing(s, input, fault) ==
    IF ~hasPlayer \/ ~hasBody THEN s
    ELSE IF fault = "activate" THEN Caught(s)
    ELSE IF input.movement.present /\ ~camera.present THEN s
    ELSE LET m == MovementThrowing(s, input, fault)
         IN  IF m.obs.caught THEN m ELSE JumpThrowing(m, input, fault)

\* writes the record back to the variables it was gathered from
Store(s) ==
    /\ velocity' = s.velocity
    /\ lastInputAppliedTime' = s.lastInputAppliedTime
    /\ noInputDuration' = s.noInputDuration
    /\ velocityDampingActive' = s.velocityDampingActive
    /\ isJumping' = s.isJumping
    /\ jumpCooldown' = s.jumpCooldown
    /\ jumpStartTime' = s.jumpStartTime
    /\ playerIsJumping' = s.playerIsJumping
    /\ timers' = s.timers

(* ------------------------------ set-up --------------------------------- *)
\* Player's constructor default position (0, 5, 0)
SpawnPosition == Vec(0, 5000, 0)

\* the length of the jump animation clip in ms, 0 when there is no clip
JumpClips == {0, 1000}

JumpDurationOf(clip) ==
    IF clip = 0 THEN DefaultJumpDuration ELSE clip + JumpBuffer

\* authoritative positions a snapshot may carry
ServerPositions ==
    { Vec(120, 5100, -100),
      Vec(200, 5000, 0),
      Vec(0, 5000, -5000) }

\* the local player's entry of a snapshot; the server acknowledges only
\* sequences the client has issued
\* a snapshot: hasPlayers, hasEntry, numericAck and hasPosition tell which
\* parts of serverState.players[playerId] exist; a part that does not exist
\* is never read
Snapshot(players, entry, numeric, pos, n, p) ==
    [hasPlayers |-> players, hasEntry |-> entry, numericAck |-> numeric,
     hasPosition |-> pos, lastProcessedInput |-> n, position |-> p]

NoEntry == Snapshot(TRUE, FALSE, FALSE, FALSE, 0, SpawnPosition)

WellFormed(acks, positions) ==
    {Snapshot(TRUE, TRUE, TRUE, TRUE, n, p) : n \in acks, p \in positions}

ServerStates == {NoEntry} \cup WellFormed(0..inputSequence, ServerPositions)

\* serverState.players undefined
NoPlayers == Snapshot(FALSE, FALSE, FALSE, FALSE, 0, SpawnPosition)

\* no players table; an entry without a position; an entry whose
\* lastProcessedInput is not a number
MalformedStates ==
    {NoPlayers}
    \cup {Snapshot(TRUE, TRUE, TRUE, FALSE, n, SpawnPosition) :
             n \in 0..inputSequence}
    \cup {Snapshot(TRUE, TRUE, FALSE, TRUE, 0, p) : p \in ServerPositions}

Malformed(st) ==
    ~st.hasPlayers \/ (st.hasEntry /\ (~st.hasPosition \/ ~st.numericAck))

Shape(st) ==
    IF Malformed(st) THEN "malformed"
    ELSE IF ~st.hasEntry THEN "absent" ELSE "ok"

CameraStates == {NoCamera, Camera(0), Camera(1)}

FrameTimes == {500}

\* the state after the constructors: whether the game has a player yet,
\* whether Player.createPhysics gave it a body (it catches its own errors and
\* leaves body null), its position and the velocity of its body
Built(startPosition, startVelocity, player, body) ==
    /\ inputSequence = 0
    /\ pendingInputs = <<>>
    /\ lastProcessedInput = -1
    /\ reconciliationEnabled = TRUE
    /\ predictionEnabled = TRUE
    /\ isJumping = FALSE
    /\ jumpCooldown = FALSE
    /\ jumpStartTime = 0
    /\ lastInputAppliedTime = 0
    /\ noInputDuration = 0
    /\ velocityDampingActive = FALSE
    /\ lastMovementInput = NullMovement
    /\ reconciliationCount = 0
    /\ lastReconciliationTime = 0
    /\ averageCorrection = Vec(0, 0, 0)
    /\ hasPlayer = player
    /\ hasBody = (player /\ body)
    /\ playerIsAttacking = FALSE
    /\ playerIsJumping = FALSE
    /\ jumpDuration = JumpDurationOf(0)
    /\ position = startPosition
    /\ velocity = startVelocity
    /\ camera = Camera(0)
    /\ onGround = TRUE
    /\ connected = TRUE
    /\ now = 0
    /\ timers = <<>>
    /\ obs = Obs("none")
    /\ returned = {}

\* the player created at startPosition with a body of horizontal velocity
\* (vx, vz)
Constructed(startPosition, vx, vz) ==
    Built(startPosition, Vec(vx, 0, vz), TRUE, TRUE)

Init == Constructed(SpawnPosition, 0, 0)

(* ---------------------------- processInput ----------------------------- *)
\* keeps an entry aged exactly PendingHorizon
UnexpiredMutant(ledger, currentTime) ==
    LET Fresh(e) == currentTime - e.timestamp <= PendingHorizon
    IN  SelectSeq(ledger, Fresh)

Unexpired(ledger, currentTime) ==
    LET Fresh(e) == currentTime - e.timestamp < PendingHorizon
    IN  SelectSeq(ledger, Fresh)

\* the sequence counter is not advanced
NextSequenceMutant(seq) == seq

NextSequence(seq) == seq + 1

\* the reactivation of the body was placed before the try block
EscapesMutant(fault) == fault = "activate"

\* lines 263-373: every collaborator call of applyInput lies inside the try
\* block, so no error raised by one leaves applyInput
Escapes(fault) == FALSE

\* processInput, the collaborator call named by fault raising an error when
\* it is reached ("none": no call raises)
ProcessInputWith(input, fault) ==
    IF ~hasPlayer \/ ~predictionEnabled
    THEN /\ obs' = [Obs("processInput") EXCEPT !.ret = -1]
         /\ returned' = returned \cup {-1}
         /\ UNCHANGED <<psVars, playerVars, gameVars, now, timers>>
    ELSE /\ LET seq == NextSequence(inputSequence)
                s == IF fault = "none"
                     THEN ApplyInput(Cur("processInput"), input, FALSE)
                     ELSE ApplyInputThrowing(Cur("processInput"), input, fault)
                entry == [sequence |-> seq, input |-> input,
                          position |-> position, timestamp |-> now]
            IN  /\ inputSequence' = seq
                /\ lastMovementInput' =
                       IF IsMovementInput(input) THEN input.movement
                       ELSE NullMovement
                /\ Store(s)
                /\ IF s.obs.caught /\ Escapes(fault)
                   THEN /\ pendingInputs' = pendingInputs
                        /\ obs' = [s.obs EXCEPT !.raised = TRUE]
                        /\ returned' = returned
                   ELSE /\ pendingInputs' =
                               Unexpired(Append(pendingInputs, entry), now)
                        /\ obs' = [s.obs EXCEPT !.ret = seq]
                        /\ returned' = returned \cup {seq}
         /\ UNCHANGED <<lastProcessedInput, reconciliationEnabled,
                        predictionEnabled, reconciliationCount,
                        lastReconciliationTime, averageCorrection,
                        hasPlayer, hasBody, playerIsAttacking, jumpDuration,
                        position, gameVars, now>>

ProcessInput(input) == ProcessInputWith(input, "none")

(* ------------------------- processServerUpdate ------------------------- *)
\* drops the entry after the acknowledged one as well
AcknowledgedTooMany(ledger, n) ==
    LET Later(e) == e.sequence > n + 1
    IN  SelectSeq(ledger, Later)

\* keeps the acknowledged entry itself
AcknowledgedTooFew(ledger, n) ==
    LET Later(e) == e.sequence >= n
    IN  SelectSeq(ledger, Later)

Acknowledged(ledger, n) ==
    LET Later(e) == e.sequence > n
    IN  SelectSeq(ledger, Later)

\* applies no part of the delta
CorrectionFactorMutant ==
    IF onGround THEN 0 ELSE 0

CorrectionFactor ==
    IF onGround THEN correctionFactorGround ELSE correctionFactorAir

\* snaps to the authoritative position
BlendMutant(clientPos, serverPos, factor) == serverPos

Blend(clientPos, serverPos, factor) ==
    Vec(clientPos.x + Times(serverPos.x - clientPos.x, factor),
        clientPos.y + Times(serverPos.y - clientPos.y, factor),
        clientPos.z + Times(serverPos.z - clientPos.z, factor))

\* corrects at the threshold itself
NeedsCorrectionMutant(clientPos, serverPos) ==
    DistanceSquared(clientPos, serverPos)
        >= positionReconciliationThreshold * positionReconciliationThreshold

NeedsCorrection(clientPos, serverPos) ==
    DistanceSquared(clientPos, serverPos)
        > positionReconciliationThreshold * positionReconciliationThreshold

\* Player.setPosition
SetPosition(newPosition) == position' = newPosition

\* the loop stops after the first entry
ReplayMutant(s, ledger, i) ==
    IF i > Len(ledger) THEN s
    ELSE [ApplyInput(s, ledger[i].input, TRUE)
             EXCEPT !.obs.replayed = Append(@, ledger[i].sequence)]

RECURSIVE Replay(_, _, _)
Replay(s, ledger, i) ==
    IF i > Len(ledger) THEN s
    ELSE Replay([ApplyInput(s, ledger[i].input, TRUE)
                    EXCEPT !.obs.replayed = Append(@, ledger[i].sequence)],
                ledger, i + 1)

\* line 433: nothing to reconcile, or reconciliation switched off
SkipsReconciliationMutant == ~hasPlayer

SkipsReconciliation == ~hasPlayer \/ ~reconciliationEnabled

\* line 436: the snapshot has no entry for the local player
LacksEntryMutant(st) == FALSE

LacksEntry(st) == ~st.hasEntry

\* line 440: the acknowledgment is newer than the last one seen
NewerMutant(n, last) == n # last

Newer(n, last) == n > last

\* what a call that returns early leaves for observation
SkippedObs(st) ==
    [Obs("processServerUpdate") EXCEPT
        !.skipped = TRUE, !.shape = Shape(st)]

\* what a call that reaches the player's entry leaves for observation
SnapshotObs(st) ==
    [Obs("processServerUpdate") EXCEPT
        !.ack = IF st.hasEntry /\ st.numericAck
                THEN st.lastProcessedInput ELSE -1,
        !.target = IF st.hasEntry /\ st.hasPosition
                   THEN st.position ELSE position,
        !.shape = Shape(st)]

ProcessServerUpdate(st) ==
    IF SkipsReconciliation
    THEN /\ obs' = SkippedObs(st)
         /\ UNCHANGED <<psVars, playerVars, gameVars, now, timers, returned>>
    ELSE IF ~st.hasPlayers
    \* serverState.players[...] raises a TypeError
    THEN /\ obs' = [Obs("processServerUpdate") EXCEPT
                        !.raised = TRUE, !.shape = Shape(st)]
         /\ UNCHANGED <<psVars, playerVars, gameVars, now, timers, returned>>
    ELSE IF LacksEntry(st)
    THEN /\ obs' = SkippedObs(st)
         /\ UNCHANGED <<psVars, playerVars, gameVars, now, timers, returned>>
    ELSE LET ack == st.numericAck
                      /\ Newer(st.lastProcessedInput, lastProcessedInput)
             ledger == IF ack
                       THEN Acknowledged(pendingInputs, st.lastProcessedInput)
                       ELSE pendingInputs
             o == [SnapshotObs(st) EXCEPT
                      !.removed = Len(pendingInputs) - Len(ledger)]
         IN  /\ pendingInputs' = ledger
             /\ lastProcessedInput' =
                    IF ack THEN st.lastProcessedInput ELSE lastProcessedInput
             /\ IF ~st.hasPosition
                \* serverPos.x raises a TypeError, after the acknowledgment
                THEN /\ obs' = [o EXCEPT !.raised = TRUE]
                     /\ UNCHANGED <<position, reconciliationCount,
                                    lastReconciliationTime, averageCorrection,
                                    velocity, lastInputAppliedTime,
                                    noInputDuration, velocityDampingActive,
                                    isJumping, jumpCooldown, jumpStartTime,
                                    playerIsJumping, timers>>
                ELSE IF NeedsCorrection(position, st.position)
                THEN /\ SetPosition(Blend(position, st.position, CorrectionFactor))
                     /\ reconciliationCount' = reconciliationCount + 1
                     /\ lastReconciliationTime' = now
                     /\ averageCorrection' = Vec(st.position.x - position.x,
                                                 st.position.y - position.y,
                                                 st.position.z - position.z)
                     /\ LET s0 == [Cur("processServerUpdate")
                                      EXCEPT !.replaying = TRUE,
                                             !.obs = [o EXCEPT !.corrected = TRUE]]
                            s == Replay(s0, ledger, 1)
                        IN  Store(s) /\ obs' = s.obs
                ELSE /\ obs' = o
                     /\ UNCHANGED <<position, reconciliationCount,
                                    lastReconciliationTime, averageCorrection,
                                    velocity, lastInputAppliedTime,
                                    noInputDuration, velocityDampingActive,
                                    isJumping, jumpCooldown, jumpStartTime,
                                    playerIsJumping, timers>>
             /\ UNCHANGED <<inputSequence, reconciliationEnabled,
                            predictionEnabled, lastMovementInput, hasPlayer,
                            hasBody, playerIsAttacking, jumpDuration, gameVars,
                            now, returned>>

(* ------------------------ update (damping tick) ------------------------ *)
\* the time without input keeps adding up from tick to tick
NoInputDurationMutant(currentTime) ==
    noInputDuration + (currentTime - lastInputAppliedTime)

NoInputDuration(currentTime) == currentTime - lastInputAppliedTime

UpdateInputDamping ==
    IF ~hasPlayer \/ ~hasBody
    THEN /\ obs' = Obs("update")
         /\ UNCHANGED <<psVars, playerVars, gameVars, now, timers, returned>>
    ELSE LET s0 == [Cur("update") EXCEPT
                       !.noInputDuration = NoInputDuration(now)]
             s == IF ~lastMovementInput.present /\ onGround
                        /\ ~velocityDampingActive
                  THEN StopMovement(s0) ELSE s0
         IN  /\ Store(s)
             /\ obs' = s.obs
             /\ UNCHANGED <<inputSequence, pendingInputs, lastProcessedInput,
                            reconciliationEnabled, predictionEnabled,
                            lastMovementInput, reconciliationCount,
                            lastReconciliationTime, averageCorrection,
                            hasPlayer, hasBody, playerIsAttacking, jumpDuration,
                            position, gameVars, now, returned>>

Update == UpdateInputDamping

(* ------------------------------- toggles ------------------------------- *)
\* the toggle starts the sequence numbers afresh
TogglePredictionMutant ==
    /\ predictionEnabled' = ~predictionEnabled
    /\ inputSequence' = 0
    /\ obs' = Obs("none")
    /\ UNCHANGED <<pendingInputs, lastProcessedInput,
                   reconciliationEnabled, isJumping, jumpCooldown,
                   jumpStartTime, lastInputAppliedTime, noInputDuration,
                   velocityDampingActive, lastMovementInput,
                   reconciliationCount, lastReconciliationTime,
                   averageCorrection, playerVars, gameVars, now, timers,
                   returned>>

TogglePrediction ==
    /\ predictionEnabled' = ~predictionEnabled
    /\ obs' = Obs("none")
    /\ UNCHANGED <<inputSequence, pendingInputs, lastProcessedInput,
                   reconciliationEnabled, isJumping, jumpCooldown,
                   jumpStartTime, lastInputAppliedTime, noInputDuration,
                   velocityDampingActive, lastMovementInput,
                   reconciliationCount, lastReconciliationTime,
                   averageCorrection, playerVars, gameVars, now, timers,
                   returned>>

\* the toggle also resets the statistics
ToggleReconciliationMutant ==
    /\ reconciliationEnabled' = ~reconciliationEnabled
    /\ reconciliationCount' = 0
    /\ obs' = Obs("none")
    /\ UNCHANGED <<inputSequence, pendingInputs, lastProcessedInput,
                   predictionEnabled, isJumping, jumpCooldown,
                   jumpStartTime, lastInputAppliedTime, noInputDuration,
                   velocityDampingActive, lastMovementInput,
                   lastReconciliationTime, averageCorrection, playerVars,
                   gameVars, now, timers, returned>>

ToggleReconciliation ==
    /\ reconciliationEnabled' = ~reconciliationEnabled
    /\ obs' = Obs("none")
    /\ UNCHANGED <<inputSequence, pendingInputs, lastProcessedInput,
                   predictionEnabled, isJumping, jumpCooldown,
                   jumpStartTime, lastInputAppliedTime, noInputDuration,
                   velocityDampingActive, lastMovementInput,
                   reconciliationCount, lastReconciliationTime,
                   averageCorrection, playerVars, gameVars, now, timers,
                   returned>>

(* ------------------------------- Player -------------------------------- *)
Attack ==
    /\ hasPlayer
    /\ IF playerIsAttacking
       THEN UNCHANGED <<playerIsAttacking, timers>>
       ELSE /\ playerIsAttacking' = TRUE
            /\ timers' = Append(timers, Timer("attack", now + AttackDelay))
    /\ obs' = Obs("none")
    /\ UNCHANGED <<psVars, hasPlayer, hasBody, playerIsJumping, jumpDuration,
                   position, velocity, gameVars, now, returned>>

\* Player.loadModel: the loaded model brings its own jump animation clip
ModelLoaded ==
    /\ hasPlayer
    /\ \E clip \in JumpClips \ {0} :
          /\ jumpDuration # JumpDurationOf(clip)
          /\ jumpDuration' = JumpDurationOf(clip)
    /\ obs' = Obs("none")
    /\ UNCHANGED <<psVars, hasPlayer, hasBody, playerIsAttacking,
                   playerIsJumping, position, velocity, gameVars, now,
                   timers, returned>>

(* ------------------------------- timers -------------------------------- *)
\* a callback runs once its delay has passed, the earliest due first and,
\* among equals, the one scheduled first
Due(i) ==
    /\ i \in 1..Len(timers)
    /\ timers[i].due <= now
    /\ \A j \in 1..Len(timers) :
          \/ timers[j].due > timers[i].due
          \/ (timers[j].due = timers[i].due /\ j >= i)

Without(i) == SubSeq(timers, 1, i - 1) \o SubSeq(timers, i + 1, Len(timers))

\* the cooldown callback ends the jump as well
JumpCooldownTimeoutMutant ==
    \E i \in 1..Len(timers) :
        /\ Due(i) /\ timers[i].kind = "jumpCooldown"
        /\ jumpCooldown' = FALSE
        /\ isJumping' = FALSE
        /\ timers' = Without(i)
        /\ obs' = Obs("none")
        /\ UNCHANGED <<inputSequence, pendingInputs, lastProcessedInput,
                       reconciliationEnabled, predictionEnabled,
                       jumpStartTime, lastInputAppliedTime, noInputDuration,
                       velocityDampingActive, lastMovementInput,
                       reconciliationCount, lastReconciliationTime,
                       averageCorrection, playerVars, gameVars, now,
                       returned>>

JumpCooldownTimeout ==
    \E i \in 1..Len(timers) :
        /\ Due(i) /\ timers[i].kind = "jumpCooldown"
        /\ jumpCooldown' = FALSE
        /\ timers' = Without(i)
        /\ obs' = Obs("none")
        /\ UNCHANGED <<inputSequence, pendingInputs, lastProcessedInput,
                       reconciliationEnabled, predictionEnabled, isJumping,
                       jumpStartTime, lastInputAppliedTime, noInputDuration,
                       velocityDampingActive, lastMovementInput,
                       reconciliationCount, lastReconciliationTime,
                       averageCorrection, playerVars, gameVars, now,
                       returned>>

\* Player.checkGroundContact: the callbacks only flip flags, so the check
\* refreshes the player's own view of the ground and nothing modelled here
CheckGroundContact == UNCHANGED playerVars

JumpResetTimeout ==
    \E i \in 1..Len(timers) :
        /\ Due(i) /\ timers[i].kind = "jumpReset"
        /\ isJumping' = FALSE
        /\ CheckGroundContact
        /\ timers' = Without(i)
        /\ obs' = Obs("none")
        /\ UNCHANGED <<inputSequence, pendingInputs, lastProcessedInput,
                       reconciliationEnabled, predictionEnabled, jumpCooldown,
                       jumpStartTime, lastInputAppliedTime, noInputDuration,
                       velocityDampingActive, lastMovementInput,
                       reconciliationCount, lastReconciliationTime,
                       averageCorrection, gameVars, now, returned>>

AttackTimeout ==
    \E i \in 1..Len(timers) :
        /\ Due(i) /\ timers[i].kind = "attack"
        /\ playerIsAttacking' = FALSE
        /\ timers' = Without(i)
        /\ obs' = Obs("none")
        /\ UNCHANGED <<psVars, hasPlayer, hasBody, playerIsJumping,
                       jumpDuration, position, velocity, gameVars, now,
                       returned>>

PlayerJumpTimeout ==
    \E i \in 1..Len(timers) :
        /\ Due(i) /\ timers[i].kind = "playerJump"
        /\ playerIsJumping' = FALSE
        /\ timers' = Without(i)
        /\ obs' = Obs("none")
        /\ UNCHANGED <<psVars, hasPlayer, hasBody, playerIsAttacking,
                       jumpDuration, position, velocity, gameVars, now,
                       returned>>

(* ----------------------------- environment ----------------------------- *)
Min(a, b) == IF a < b THEN a ELSE b

\* Date.now() moves on by a frame time, or up to the next timer's due time
AdvanceTime ==
    /\ \A i \in 1..Len(timers) : timers[i].due > now
    /\ \E dt \in FrameTimes :
          LET dues == {timers[i].due : i \in 1..Len(timers)}
              next == IF \E d \in dues : d < now + dt
                      THEN CHOOSE d \in dues : \A e \in dues : d <= e
                      ELSE now + dt
          IN  next <= MaxTime /\ now' = next
    /\ obs' = Obs("none")
    /\ UNCHANGED <<psVars, playerVars, gameVars, timers, returned>>

\* the physics world: the body lands or leaves the ground
GroundContactChanges ==
    /\ onGround' = ~onGround
    /\ obs' = Obs("none")
    /\ UNCHANGED <<psVars, playerVars, camera, connected, now, timers,
                   returned>>

CameraChanges ==
    /\ \E c \in CameraStates \ {camera} : camera' = c
    /\ obs' = Obs("none")
    /\ UNCHANGED <<psVars, playerVars, onGround, connected, now, timers,
                   returned>>

\* the physics world: gravity and impulses change the vertical velocity
VerticalVelocities == {-9800, 0, 5000}

VerticalVelocityChanges ==
    /\ hasBody
    /\ \E vy \in VerticalVelocities \ {velocity.y} :
          velocity' = [velocity EXCEPT !.y = vy]
    /\ obs' = Obs("none")
    /\ UNCHANGED <<psVars, hasPlayer, hasBody, playerIsAttacking,
                   playerIsJumping, jumpDuration, position, gameVars, now,
                   timers, returned>>

\* the model's bounds: at most MaxInputs recorded inputs and at most
\* MaxReconciliations corrections
MayRecord == hasPlayer /\ predictionEnabled => inputSequence < MaxInputs

MayCorrect(st) ==
    hasPlayer /\ reconciliationEnabled /\ st.hasEntry /\ st.hasPosition
        /\ NeedsCorrection(position, st.position)
    => reconciliationCount < MaxReconciliations

ServerUpdate == \E st \in ServerStates : MayCorrect(st) /\ ProcessServerUpdate(st)

\* the frame loop: inputs, snapshots, damping ticks and the clock
Next ==
    \/ \E input \in MoveInputs : MayRecord /\ ProcessInput(input)
    \/ ServerUpdate
    \/ Update
    \/ AdvanceTime

Spec == Init /\ [][Next]_vars

\* the frame loop with prediction and reconciliation switched on and off
NextToggles ==
    \/ Next
    \/ TogglePrediction
    \/ ToggleReconciliation

SpecToggles == Init /\ [][NextToggles]_vars

\* the frame loop with jumps, their timers and a body that lands and leaves
\* the ground
NextJump ==
    \/ \E input \in JumpInputs : MayRecord /\ ProcessInput(input)
    \/ ServerUpdate
    \/ Update
    \/ AdvanceTime
    \/ JumpCooldownTimeout
    \/ JumpResetTimeout
    \/ PlayerJumpTimeout
    \/ GroundContactChanges

SpecJump == Init /\ [][NextJump]_vars

(* ----------------- snapshots of every shape, malformed too ------------- *)
AnyServerUpdate ==
    \E st \in ServerStates \cup MalformedStates :
        MayCorrect(st) /\ ProcessServerUpdate(st)

NextMalformed ==
    \/ \E input \in MoveInputs : MayRecord /\ ProcessInput(input)
    \/ AnyServerUpdate

SpecMalformed == Init /\ [][NextMalformed]_vars

(* ------------------------ collaborators that raise --------------------- *)
FaultInputs == {Input(NoKeys, TRUE), Input(Forward, FALSE), Input(Forward, TRUE)}

NextFaults ==
    \/ \E input \in FaultInputs, fault \in Faults \cup {"none"} :
           MayRecord /\ ProcessInputWith(input, fault)
    \/ Update
    \/ GroundContactChanges

SpecFaults == Init /\ [][NextFaults]_vars

(* ------------- every operation that could touch the statistics --------- *)
StatsInputs == {Input(NoKeys, TRUE)}

NextStats ==
    \/ \E input \in StatsInputs : MayRecord /\ ProcessInput(input)
    \/ ServerUpdate
    \/ Update
    \/ TogglePrediction
    \/ ToggleReconciliation
    \/ JumpCooldownTimeout
    \/ JumpResetTimeout
    \/ PlayerJumpTimeout
    \/ Attack
    \/ AttackTimeout
    \/ AdvanceTime

SpecStats == Init /\ [][NextStats]_vars

(* --------------------- a fixed authoritative position ------------------ *)
\* the server holds the player 5 units ahead of the spawn position
FixedAuthority == Vec(0, 5000, -5000)

StartPositions ==
    {SpawnPosition, Vec(400, 5400, -2000), Vec(0, 5000, -4700)}

InitReconcile == \E p \in StartPositions : Constructed(p, 0, 0)

AuthoritySnapshots == WellFormed(0..inputSequence, {FixedAuthority})

\* snapshots keep arriving with the same position; no input is recorded
NextReconcile ==
    \/ \E st \in AuthoritySnapshots : ProcessServerUpdate(st)
    \/ GroundContactChanges

SpecReconcile == InitReconcile /\ [][NextReconcile]_vars

(* ------------------- releasing the keys while moving ------------------- *)
\* horizontal velocities of the body when the keys are released
DampingVelocities == {-15000, -112, 111, 3000}

InitDamping ==
    \E vx, vz \in DampingVelocities : Constructed(SpawnPosition, vx, vz)

NextDamping ==
    \/ \E input \in MoveInputs : MayRecord /\ ProcessInput(input)
    \/ Update
    \/ TogglePrediction

\* update is called once per frame, whatever else happens
SpecDamping == InitDamping /\ [][NextDamping]_vars /\ WF_vars(Update)

(* ------------------------ no camera, no body --------------------------- *)
\* inputs without a movement object, with one that names no direction and
\* with a direction
GuardInputs ==
    {Input(NullMovement, TRUE), Input(NoKeys, TRUE), Input(Forward, FALSE)}

\* the velocity of the body when the frame loop starts
GuardVelocity == Vec(3000, 0, -15000)

InitGuards == \E body \in BOOLEAN : Built(SpawnPosition, GuardVelocity, TRUE, body)

NextGuards ==
    \/ \E input \in GuardInputs : MayRecord /\ ProcessInput(input)
    \/ Update
    \/ CameraChanges
    \/ JumpCooldownTimeout
    \/ JumpResetTimeout
    \/ PlayerJumpTimeout
    \/ AdvanceTime

SpecGuards == InitGuards /\ [][NextGuards]_vars

(* ------------------------- an attack under way ------------------------- *)
\* inputs that name no direction (no movement object, no key, opposing
\* keys) and one that names a direction
AttackInputs ==
    {Input(NullMovement, FALSE), Input(NoKeys, FALSE),
     Input(Movement(TRUE, TRUE, TRUE, FALSE, FALSE), FALSE),
     Input(Forward, FALSE)}

NextAttack ==
    \/ \E input \in AttackInputs : MayRecord /\ ProcessInput(input)
    \/ CameraChanges
    \/ Attack
    \/ AttackTimeout
    \/ AdvanceTime

SpecAttack == InitGuards /\ [][NextAttack]_vars

(* --------------------- a body that rises and falls --------------------- *)
NextVertical ==
    \/ \E input \in MoveInputs : MayRecord /\ ProcessInput(input)
    \/ ServerUpdate
    \/ Update
    \/ VerticalVelocityChanges

SpecVertical == Init /\ [][NextVertical]_vars

(* ------------- prediction switched off, a game without player ---------- *)
\* the prediction system is constructed before or after the game's player
InitDisabled ==
    \E player \in BOOLEAN : Built(SpawnPosition, Vec(0, 0, 0), player, TRUE)

NextDisabled ==
    \/ \E input \in MoveInputs : MayRecord /\ ProcessInput(input)
    \/ TogglePrediction
    \/ Update
    \/ AdvanceTime

SpecDisabled == InitDisabled /\ [][NextDisabled]_vars

(* ------------------ a model with its own jump animation --------------- *)
NextClips ==
    \/ \E input \in JumpInputs : MayRecord /\ ProcessInput(input)
    \/ ModelLoaded
    \/ JumpCooldownTimeout
    \/ JumpResetTimeout
    \/ PlayerJumpTimeout
    \/ AdvanceTime

SpecClips == Init /\ [][NextClips]_vars

(* ------------------------------ the steps ------------------------------ *)
\* the step is a processInput call
ProcessInputStep == obs'.op = "processInput"

\* a processInput call that records an entry
Recording == hasPlayer /\ predictionEnabled

\* the step is a processServerUpdate call that reaches the local player's
\* entry of the snapshot
ServerUpdateStep == obs'.op = "processServerUpdate" /\ ~obs'.skipped

ThresholdSquared ==
    positionReconciliationThreshold * positionReconciliationThreshold

StrictlyBetween(a, m, b) == (a < m /\ m < b) \/ (b < m /\ m < a)

(* -------------------------------- C1 ----------------------------------- *)
\* C1: during replay no jump notification (sendJump) and no movement-intent
\* notification (setMovementIntent) is emitted, whatever the replayed
\* entries hold
C1_ReplayEmitsNothing ==
    obs.replaySendJump = 0 /\ obs.replayIntent = 0

C3_EveryReturnGreater ==
    [][ProcessInputStep => \A v \in returned : obs'.ret > v]_vars

\* C3 amended: each value returned by a processInput call that records an
\* entry is strictly greater than every value returned earlier; a call made
\* while prediction is disabled returns -1
C3_RecordedReturnGreater ==
    [][ProcessInputStep
          => IF Recording THEN \A v \in returned : obs'.ret > v
             ELSE obs'.ret = -1]_vars

C3_Witness ==
    obs.op = "processInput" /\ obs.ret = 2 /\ -1 \in returned

(* -------------------------------- C4 ----------------------------------- *)
\* C4: within the threshold (squared distance <= squared threshold)
\* processServerUpdate leaves the position, reconciliationCount, the last
\* correction and its time unchanged and replays nothing
C4_WithinThresholdNoCorrection ==
    [][/\ ServerUpdateStep
       /\ DistanceSquared(position, obs'.target) <= ThresholdSquared
       => /\ position' = position
          /\ reconciliationCount' = reconciliationCount
          /\ averageCorrection' = averageCorrection
          /\ lastReconciliationTime' = lastReconciliationTime
          /\ obs'.replayed = <<>>
          /\ velocity' = velocity]_vars

C4_Witness ==
    /\ obs.op = "processServerUpdate"
    /\ ~obs.skipped /\ ~obs.corrected
    /\ Len(pendingInputs) >= 1
    /\ DistanceSquared(position, obs.target) = ThresholdSquared

(* -------------------------------- C5 ----------------------------------- *)
\* the number of corrections a fixed authoritative position can require
ConvergenceBound == 31

\* C5: with a fixed authoritative position and no new input, every
\* processServerUpdate that starts beyond the threshold is a correction that
\* strictly decreases the distance; at most ConvergenceBound corrections
\* happen, and once within the threshold the position is corrected no more
C5_Convergence ==
    /\ [][/\ ServerUpdateStep
           /\ DistanceSquared(position, FixedAuthority) > ThresholdSquared
           => /\ obs'.corrected
              /\ reconciliationCount' = reconciliationCount + 1
              /\ DistanceSquared(position', FixedAuthority)
                    < DistanceSquared(position, FixedAuthority)]_vars
    /\ [](reconciliationCount <= ConvergenceBound)
    /\ [][DistanceSquared(position, FixedAuthority) <= ThresholdSquared
           => /\ position' = position
              /\ reconciliationCount' = reconciliationCount]_vars

\* a long run of corrections has ended within the threshold, and a further
\* snapshot has been left uncorrected
C5_Witness ==
    /\ obs.op = "processServerUpdate" /\ ~obs.skipped /\ ~obs.corrected
    /\ obs.target = FixedAuthority
    /\ reconciliationCount >= 20
    /\ position # FixedAuthority
    /\ DistanceSquared(position, FixedAuthority) <= ThresholdSquared

(* -------------------------------- C6 ----------------------------------- *)
\* C6: the first recorded processInput returns 1; beyond the threshold
\* processServerUpdate moves the position to local + delta * factor, every
\* coordinate with a nonzero delta ending strictly between the old and the
\* authoritative one, and reconciliationCount grows by exactly 1
C6_FirstSequenceAndBlend ==
    [][/\ (ProcessInputStep /\ Recording /\ inputSequence = 0 => obs'.ret = 1)
       /\ (/\ ServerUpdateStep
           /\ DistanceSquared(position, obs'.target) > ThresholdSquared
           => /\ reconciliationCount' = reconciliationCount + 1
              /\ \A f \in {"x", "y", "z"} :
                    IF obs'.target[f] = position[f]
                    THEN position'[f] = position[f]
                    ELSE /\ StrictlyBetween(position[f], position'[f],
                                            obs'.target[f])
                         /\ position'[f] = position[f]
                               + Times(obs'.target[f] - position[f],
                                       CorrectionFactor))]_vars

C6_Witness ==
    /\ obs.op = "processServerUpdate" /\ obs.corrected
    /\ reconciliationCount = 1
    /\ 1 \in returned
    /\ position # SpawnPosition

(* -------------------------------- C7 ----------------------------------- *)
\* C7: right after a processInput call that records an entry at time now,
\* every ledger entry is younger than 1000 ms
C7_NoExpiredEntryAfterRecord ==
    obs.op = "processInput" /\ obs.ret # -1
    => \A i \in 1..Len(pendingInputs) :
          now - pendingInputs[i].timestamp < PendingHorizon

\* an unacknowledged entry was dropped for its age
C7_Witness ==
    /\ obs.op = "processInput" /\ obs.ret = 2
    /\ lastProcessedInput = -1
    /\ Len(pendingInputs) = 1

Idle == ~lastMovementInput.present

Stopped == velocity.x = 0 /\ velocity.z = 0

\* C9: a grounded entity that moves while no movement intent is supplied
\* eventually has horizontal velocity exactly zero (unless movement intent
\* is supplied again), update being called every frame
C9_DampingReachesZero ==
    (Idle /\ onGround /\ ~Stopped) ~> (Stopped \/ ~Idle)

(* -------------------------------- C10 ---------------------------------- *)
\* the step runs stopMovement once, on the velocity the step started with
DampingStep ==
    /\ obs'.op \in {"update", "processInput"}
    /\ obs'.damped = 1

\* C10: a damping step leaves each horizontal component with the same sign
\* and no larger magnitude, or exactly zero; a component whose damped
\* magnitude is below the stop threshold becomes exactly zero
C10_DampingKeepsSign ==
    [][DampingStep
          => \A f \in {"x", "z"} :
                /\ \/ velocity'[f] = 0
                   \/ /\ (velocity[f] > 0) = (velocity'[f] > 0)
                      /\ (velocity[f] < 0) = (velocity'[f] < 0)
                      /\ Abs(velocity'[f]) <= Abs(velocity[f])
                /\ Abs(Times(velocity[f], stopDampingFactor)) < stopThreshold
                      => velocity'[f] = 0]_vars

\* second damping step of a session: the small component has been snapped
\* to zero, the large one keeps its sign
C10_Witness ==
    /\ obs.op = "processInput" /\ obs.damped = 1
    /\ inputSequence = 2
    /\ velocity.x = 0
    /\ velocity.z < 0

(* -------------------------------- C11 ---------------------------------- *)
\* the step is a damping tick
UpdateStep == obs'.op = "update"

\* C11: at horizontal velocity exactly zero a damping tick leaves velocity,
\* ledger, sequence counter and reconciliation statistics unchanged, and a
\* tick that follows a tick changes no state at all
C11_TickAtRestIdempotent ==
    [][UpdateStep /\ Stopped
          => /\ UNCHANGED <<velocity, pendingInputs, inputSequence,
                            lastProcessedInput, reconciliationCount,
                            lastReconciliationTime, averageCorrection>>
             /\ obs.op = "update"
                   => UNCHANGED <<psVars, playerVars, gameVars, now, timers>>]_vars

\* a tick at rest, some time after the last input, right after the tick
\* that switched the damping flag on
C11_Witness ==
    /\ obs.op = "update" /\ obs.damped = 0
    /\ Stopped /\ velocityDampingActive
    /\ inputSequence >= 1
    /\ noInputDuration > 0

(* -------------------------------- C12 ---------------------------------- *)
\* the step is a processServerUpdate whose snapshot has a players table
\* without an entry for the local player
EntryAbsentStep ==
    /\ obs'.op = "processServerUpdate" /\ obs'.shape = "absent"
    /\ hasPlayer /\ reconciliationEnabled

\* C12: a snapshot without an entry for the local entity changes nothing:
\* ledger, lastProcessedInput, position, velocity and statistics stay as
\* they were, nothing is replayed and the call returns normally
C12_AbsentEntryChangesNothing ==
    [][EntryAbsentStep
          => /\ UNCHANGED <<psVars, playerVars, gameVars, now, timers>>
             /\ obs'.replayed = <<>>
             /\ obs'.skipped /\ ~obs'.raised]_vars

\* skipped while the ledger holds unacknowledged entries and the position
\* has already been corrected once
C12_Witness ==
    /\ obs.op = "processServerUpdate" /\ obs.shape = "absent" /\ obs.skipped
    /\ Len(pendingInputs) >= 2
    /\ position # SpawnPosition

(* -------------------------------- C13 ---------------------------------- *)
\* C13: while reconciliation is disabled processServerUpdate changes
\* nothing and replays nothing; processInput still appends its entry, and
\* the ledger then holds only entries younger than 1000 ms
C13_DisabledReconciliation ==
    [][~reconciliationEnabled
          => /\ obs'.op = "processServerUpdate"
                   => /\ UNCHANGED <<psVars, playerVars, gameVars, now, timers>>
                      /\ obs'.replayed = <<>>
                      /\ obs'.skipped /\ ~obs'.raised
             /\ ProcessInputStep /\ Recording
                   => /\ pendingInputs' # <<>>
                      /\ pendingInputs'[Len(pendingInputs')].sequence
                            = inputSequence + 1
                      /\ \A i \in 1..Len(pendingInputs') :
                            /\ now - pendingInputs'[i].timestamp < PendingHorizon
                            /\ \/ pendingInputs'[i].sequence = inputSequence + 1
                               \/ \E k \in 1..Len(pendingInputs) :
                                     pendingInputs[k] = pendingInputs'[i]]_vars

\* with reconciliation disabled two entries have accumulated, unacknowledged,
\* and a snapshot has then been ignored
C13_Witness ==
    /\ ~reconciliationEnabled
    /\ obs.op = "processServerUpdate" /\ obs.skipped
    /\ Len(pendingInputs) >= 2
    /\ lastProcessedInput = -1

(* -------------------------------- C14 ---------------------------------- *)
\* C14: a malformed snapshot (no players table, an entry without a
\* position, an entry without a numeric acknowledgment) raises no error and
\* leaves ledger, lastProcessedInput, position and statistics unchanged
C14_MalformedSnapshotSkipped ==
    [][/\ obs'.op = "processServerUpdate" /\ obs'.shape = "malformed"
       /\ hasPlayer /\ reconciliationEnabled
       => /\ ~obs'.raised
          /\ UNCHANGED <<pendingInputs, lastProcessedInput, position,
                         reconciliationCount, lastReconciliationTime,
                         averageCorrection>>]_vars

(* -------------------------------- C20 ---------------------------------- *)
\* C20: lastProcessedInput never decreases; a snapshot whose acknowledged
\* sequence is not greater than lastProcessedInput removes no ledger entry
\* and leaves lastProcessedInput unchanged
C20_AcknowledgmentMonotonic ==
    [][/\ lastProcessedInput' >= lastProcessedInput
       /\ (ServerUpdateStep /\ obs'.ack <= lastProcessedInput
            => /\ pendingInputs' = pendingInputs
               /\ lastProcessedInput' = lastProcessedInput)]_vars

\* a stale acknowledgment has arrived after a newer one, with entries
\* still in the ledger
C20_Witness ==
    /\ obs.op = "processServerUpdate" /\ ~obs.skipped
    /\ obs.ack >= 0 /\ obs.ack < lastProcessedInput
    /\ obs.removed = 0
    /\ Len(pendingInputs) >= 1

(* -------------------------------- C15 ---------------------------------- *)
\* the conditions line 349 asks of the state
MayJump == ~isJumping /\ ~jumpCooldown /\ onGround

NoJumpEffect ==
    /\ UNCHANGED <<isJumping, jumpCooldown, jumpStartTime, playerIsJumping,
                   timers>>
    /\ obs'.sendJump = 0

\* C15: applyInput triggers a jump only for an input with jump set, met
\* while not jumping, not in jump cooldown and on the ground; otherwise
\* isJumping, jumpCooldown and jumpStartTime stay unchanged, no timer is
\* scheduled and no jump notification is sent (in replay: when none of the
\* replayed entries is such an input)
C15_JumpOnlyWhenAllowed ==
    [][/\ ProcessInputStep /\ Recording
          => LET input == pendingInputs'[Len(pendingInputs')].input
             IN  ~(input.jump /\ MayJump) => NoJumpEffect
       /\ obs'.op = "processServerUpdate"
          => (~(MayJump /\ \E i \in 1..Len(pendingInputs') :
                              pendingInputs'[i].input.jump)
              => NoJumpEffect)]_vars

\* a jump input met after the cooldown has run out but while the jump is
\* still under way: refused
C15_Witness ==
    /\ obs.op = "processInput" /\ obs.ret = 2
    /\ pendingInputs[Len(pendingInputs)].input.jump
    /\ obs.sendJump = 0
    /\ isJumping /\ ~jumpCooldown /\ onGround

(* -------------------------------- C16 ---------------------------------- *)
\* C16: an error raised by a collaborator while an input is applied is
\* caught inside applyInput: processInput raises nothing, assigns the next
\* sequence, appends the entry and returns the sequence
C16_ErrorsCaught ==
    [][ProcessInputStep /\ Recording /\ obs'.caught
          => /\ ~obs'.raised
             /\ inputSequence' = inputSequence + 1
             /\ obs'.ret = inputSequence'
             /\ pendingInputs' # <<>>
             /\ pendingInputs'[Len(pendingInputs')].sequence = inputSequence'
             /\ Len(pendingInputs') = Len(pendingInputs) + 1]_vars

\* player.jump raised in the second call: the jump was begun and abandoned
C16_Witness ==
    /\ obs.op = "processInput" /\ obs.caught /\ obs.ret = 2
    /\ Len(pendingInputs) = 2
    /\ isJumping /\ ~jumpCooldown /\ timers = <<>>

(* -------------------------------- C17 ---------------------------------- *)
ReconciliationStats ==
    <<reconciliationCount, lastReconciliationTime, averageCorrection>>

\* C17: reconciliationCount never decreases and grows by exactly 1 in each
\* processServerUpdate that corrects the position; no other operation
\* (processInput, update, the toggles, the timer callbacks) changes
\* reconciliationCount, lastReconciliationTime or the last correction
C17_StatsOnlyByReconciliation ==
    [][/\ reconciliationCount' >= reconciliationCount
       /\ position' # position => obs'.op = "processServerUpdate" /\ obs'.corrected
       /\ obs'.op = "processServerUpdate"
          => reconciliationCount' =
                reconciliationCount + (IF obs'.corrected THEN 1 ELSE 0)
       /\ obs'.op # "processServerUpdate"
          => UNCHANGED ReconciliationStats]_vars

\* after a correction, and a jump whose timers have all run, reconciliation
\* has been switched off and a tick has passed: the statistics still stand
C17_Witness ==
    /\ reconciliationCount = 1
    /\ averageCorrection # Vec(0, 0, 0)
    /\ ~reconciliationEnabled
    /\ inputSequence >= 1 /\ timers = <<>> /\ now >= JumpResetDelay
    /\ obs.op = "update"

(* -------------------------------- C18 ---------------------------------- *)
\* C18: the factor used on the ground is strictly smaller than the factor
\* used in the air, so that a grounded correction moves the position less
\* far than an airborne correction of the same delta would
C18_GroundedGentler ==
    [][ServerUpdateStep /\ obs'.corrected /\ onGround
          => /\ CorrectionFactor < correctionFactorAir
             /\ DistanceSquared(position, position')
                   < DistanceSquared(position,
                                     Blend(position, obs'.target,
                                           correctionFactorAir))]_vars

(* -------------------------------- C19 ---------------------------------- *)
Sequences(ledger) == [i \in 1..Len(ledger) |-> ledger[i].sequence]

\* C19: a correcting processServerUpdate replays exactly the entries left
\* in the ledger once the snapshot's acknowledgment is applied, each once,
\* in ascending sequence order; acknowledged entries are not replayed, and
\* the replay adds or removes no entry and leaves inputSequence alone
C19_ReplayRemainingInOrder ==
    [][ServerUpdateStep /\ obs'.corrected
          => /\ obs'.replayed = Sequences(pendingInputs')
             /\ \A i, j \in 1..Len(obs'.replayed) :
                   i < j => obs'.replayed[i] < obs'.replayed[j]
             /\ \A i \in 1..Len(obs'.replayed) : obs'.replayed[i] > obs'.ack
             /\ LET Later(e) == e.sequence > obs'.ack
                IN  pendingInputs' = SelectSeq(pendingInputs, Later)
             /\ inputSequence' = inputSequence]_vars

\* one entry acknowledged and two replayed by the same snapshot
C19_Witness ==
    /\ obs.op = "processServerUpdate" /\ obs.corrected
    /\ obs.removed >= 1
    /\ Len(obs.replayed) = 2
    /\ Len(pendingInputs) = 2

(* -------------------------------- C21 ---------------------------------- *)
\* C21: a processServerUpdate that replays entries leaves the damping
\* bookkeeping (lastInputAppliedTime, noInputDuration,
\* velocityDampingActive, lastMovementInput) and the jump state (isJumping,
\* jumpCooldown, the pending timers) exactly as they were
C21_ReplayKeepsBookkeeping ==
    [][ServerUpdateStep /\ obs'.replayed # <<>>
          => UNCHANGED <<lastInputAppliedTime, noInputDuration,
                         velocityDampingActive, lastMovementInput,
                         isJumping, jumpCooldown, timers>>]_vars

(* -------------------------------- C22 ---------------------------------- *)
\* C22: every entry processServerUpdate replays was issued less than
\* 1000 ms before the replay
C22_NoExpiredEntryReplayed ==
    [][ServerUpdateStep /\ obs'.corrected
          => \A i \in 1..Len(pendingInputs') :
                pendingInputs'[i].sequence \in
                      {obs'.replayed[k] : k \in 1..Len(obs'.replayed)}
                => now - pendingInputs'[i].timestamp < PendingHorizon]_vars

(* -------------------------------- C23 ---------------------------------- *)
\* the step runs the callback of a timer of the given kind
Fires(kind) ==
    \E i \in 1..Len(timers) :
        timers[i].kind = kind /\ timers[i].due <= now /\ timers' = Without(i)

\* what no timer callback touches
KeptByTimers ==
    UNCHANGED <<pendingInputs, inputSequence, lastProcessedInput, position,
                velocity, reconciliationCount, lastReconciliationTime,
                averageCorrection, reconciliationEnabled, predictionEnabled,
                jumpStartTime, lastInputAppliedTime, noInputDuration,
                velocityDampingActive, lastMovementInput, hasPlayer, hasBody,
                jumpDuration, gameVars, now, returned>>

\* C23: when a timer callback fires (jump cooldown, jump-state reset,
\* attack-lock reset, and the player's own jump reset), in any interleaving
\* with frames, it clears its own flag and nothing else: the ledger,
\* inputSequence, lastProcessedInput, position, velocity and the
\* reconciliation statistics are unchanged, and no input is applied and no
\* reconciliation started
C23_TimersOnlyClearOwnFlag ==
    [][/\ Len(timers') < Len(timers) => KeptByTimers /\ obs' = Obs("none")
       /\ Fires("jumpCooldown")
             => ~jumpCooldown'
                /\ UNCHANGED <<isJumping, playerIsAttacking, playerIsJumping>>
       /\ Fires("jumpReset")
             => ~isJumping'
                /\ UNCHANGED <<jumpCooldown, playerIsAttacking, playerIsJumping>>
       /\ Fires("attack")
             => ~playerIsAttacking'
                /\ UNCHANGED <<isJumping, jumpCooldown, playerIsJumping>>
       /\ Fires("playerJump")
             => ~playerIsJumping'
                /\ UNCHANGED <<isJumping, jumpCooldown, playerIsAttacking>>]_vars

\* the cooldown callback has fired between frames: a jump is under way, its
\* reset still outstanding, with an entry in the ledger and a correction made
C23_Witness ==
    /\ obs.op = "none"
    /\ isJumping /\ ~jumpCooldown
    /\ \E i \in 1..Len(timers) : timers[i].kind = "jumpReset"
    /\ \A i \in 1..Len(timers) : timers[i].kind # "jumpCooldown"
    /\ playerIsAttacking
    /\ Len(pendingInputs) >= 1
    /\ reconciliationCount >= 1

(* -------------------------------- C24 ---------------------------------- *)
\* the number of outstanding timers of the given kind
Outstanding(schedule, kind) ==
    Cardinality({i \in 1..Len(schedule) : schedule[i].kind = kind})

\* the step triggers a jump: it schedules a jump-state reset
JumpTriggers ==
    Outstanding(timers', "jumpReset") > Outstanding(timers, "jumpReset")

\* at most one timer of each kind is outstanding, and the cooldown lies
\* within the jump
JumpTimersInOrder ==
    /\ Outstanding(timers, "jumpCooldown") <= 1
    /\ Outstanding(timers, "jumpReset") <= 1
    /\ jumpCooldown => isJumping
    /\ isJumping
          => \E i \in 1..Len(timers) :
                timers[i] = Timer("jumpReset", jumpStartTime + JumpResetDelay)

\* C24: a jump triggers only while no jump is under way, and a jump under
\* way ends only when its reset timer fires, 1000 ms or more after the
\* trigger, so that two triggers and two jump notifications are at least
\* 1000 ms apart; at most one cooldown timer and one reset timer are
\* outstanding, and jumpCooldown implies isJumping
C24_JumpsApart ==
    [][/\ JumpTimersInOrder /\ JumpTimersInOrder'
       /\ now' >= now
       /\ JumpTriggers
             => /\ ~isJumping /\ ~jumpCooldown
                /\ isJumping' /\ jumpCooldown'
                /\ jumpStartTime' = now
                /\ obs'.sendJump <= 1
       /\ obs'.sendJump > 0 => JumpTriggers
       /\ isJumping /\ ~isJumping'
             => /\ Fires("jumpReset")
                /\ now >= jumpStartTime + JumpResetDelay]_vars

\* a jump was asked for on the ground 500 ms into a jump, after the cooldown
\* had ended, and did not trigger
C24_Witness ==
    /\ obs.op = "processInput" /\ obs.ret >= 2
    /\ pendingInputs[Len(pendingInputs)].input.jump
    /\ onGround
    /\ isJumping /\ ~jumpCooldown
    /\ now = jumpStartTime + JumpCooldownDelay
    /\ obs.sendJump = 0

(* -------------------------------- C25 ---------------------------------- *)
\* what applyInput can write besides the notifications it sends
AppliedState ==
    <<velocity, isJumping, jumpCooldown, jumpStartTime, playerIsJumping,
      timers, lastInputAppliedTime, noInputDuration, velocityDampingActive>>

\* the step sends no notification and damps nothing
Silent == obs'.intent = 0 /\ obs'.sendJump = 0 /\ obs'.damped = 0

\* C25: with no camera available, the applyInput of a processInput call is
\* a no-op for every input, with or without a movement object and with or
\* without jump set: velocity, jump flags, timers and damping bookkeeping
\* are unchanged and no notification is sent
C25_NoCameraNoOp ==
    [][ProcessInputStep /\ ~camera.present
          => UNCHANGED AppliedState /\ Silent]_vars

(* -------------------------------- C26 ---------------------------------- *)
\* the input names no horizontal direction: no movement object, no flag
\* set, or opposing flags cancelling
NoDirection(input) ==
    \/ ~input.movement.present
    \/ (Direction(input.movement).x = 0 /\ Direction(input.movement).z = 0)

\* the input the processInput call of this step was given
GivenInput == pendingInputs'[Len(pendingInputs')].input

\* the step leaves the velocity, velocityDampingActive and the movement
\* intent as they were
Frozen ==
    /\ velocity' = velocity
    /\ velocityDampingActive' = velocityDampingActive
    /\ obs'.intent = 0

\* the step runs the damping step once
DampedOnce ==
    /\ obs'.damped = 1
    /\ velocity' = Vec(Damp(velocity.x), velocity.y, Damp(velocity.z))
    /\ velocityDampingActive'
    /\ obs'.intent = 1

\* C26 as stated: for an input that names no horizontal direction
\* applyInput runs the damping step if and only if the entity is not
\* mid-attack, and mid-attack it leaves the velocity, velocityDampingActive
\* and the movement intent unchanged
C26_DampingUnlessAttacking ==
    [][ProcessInputStep /\ Recording /\ NoDirection(GivenInput)
          => /\ obs'.damped >= 1 <=> ~playerIsAttacking
             /\ playerIsAttacking => Frozen]_vars

\* C26 amended: when the player has a physics body and a camera is
\* available, for an input that names no horizontal direction applyInput
\* runs the damping step, once, if and only if the entity is not mid-attack,
\* and mid-attack it leaves the velocity, velocityDampingActive and the
\* movement intent unchanged
C26_DampingUnlessAttackingOrGuarded ==
    [][/\ ProcessInputStep /\ Recording /\ NoDirection(GivenInput)
       /\ hasBody /\ camera.present
       => IF playerIsAttacking THEN Frozen /\ obs'.damped = 0
          ELSE DampedOnce]_vars

\* an input without direction was applied mid-attack, body and camera
\* available, after an earlier one had been damped
C26_Witness ==
    /\ obs.op = "processInput" /\ obs.ret >= 2
    /\ NoDirection(pendingInputs[Len(pendingInputs)].input)
    /\ hasBody /\ camera.present
    /\ playerIsAttacking
    /\ obs.damped = 0
    /\ velocity = Vec(Damp(GuardVelocity.x), 0, Damp(GuardVelocity.z))
    /\ velocityDampingActive

(* -------------------------------- C27 ---------------------------------- *)
\* C27: no operation of the prediction system (processInput applying a
\* direction or damping, the damping tick, a replay) changes the vertical
\* velocity: the y velocity after the operation is the y velocity before it
C27_VerticalVelocityKept ==
    [][obs'.op \in {"processInput", "update", "processServerUpdate"}
          => velocity'.y = velocity.y]_vars

\* a replay has damped a body that is falling and moving forward
C27_Witness ==
    /\ obs.op = "processServerUpdate"
    /\ obs.damped >= 1
    /\ Len(obs.replayed) >= 2
    /\ velocity.y = -9800
    /\ velocity.z < 0

(* -------------------------------- C28 ---------------------------------- *)
\* C28: while the entity is airborne no operation (the damping tick, the
\* applyInput of processInput, a replay) multiplies the horizontal velocity
\* by the damping factor
C28_NoDampingAirborne ==
    [][~onGround => obs'.damped = 0]_vars

(* -------------------------------- C29 ---------------------------------- *)
\* C29: while the player has no physics body, processInput (applyInput and
\* stopMovement within it) and the damping tick raise no error and change
\* neither velocity, jump flags, timers nor damping bookkeeping, and
\* processInput records no ledger entry
C29_NoBodySkips ==
    [][~hasBody /\ obs'.op \in {"processInput", "update"}
          => /\ UNCHANGED AppliedState /\ Silent
             /\ ~obs'.raised
             /\ pendingInputs' = pendingInputs]_vars

(* -------------------------------- C30 ---------------------------------- *)
\* the sequences processInput has returned so far
ReturnedSequences == returned \ {-1}

\* C30: while prediction is disabled or the game has no player,
\* processInput returns -1 and changes nothing (inputSequence, the ledger,
\* lastMovementInput, and everything applyInput writes); a processInput that
\* records, also after prediction was re-enabled, returns one more than the
\* last sequence returned before
C30_DisabledChangesNothing ==
    [][ProcessInputStep
          => IF ~Recording
             THEN /\ obs'.ret = -1
                  /\ UNCHANGED <<psVars, playerVars, gameVars, now, timers>>
                  /\ Silent
             ELSE /\ obs'.ret = inputSequence + 1
                  /\ \A v \in ReturnedSequences : v <= inputSequence
                  /\ ReturnedSequences # {} => inputSequence \in returned]_vars

\* processInput was called with prediction disabled while the ledger held
\* an entry old enough to be pruned
C30_Witness ==
    /\ obs.op = "processInput" /\ obs.ret = -1
    /\ hasPlayer /\ ~predictionEnabled
    /\ inputSequence >= 2
    /\ \E i \in 1..Len(pendingInputs) :
          now - pendingInputs[i].timestamp >= PendingHorizon

(* -------------------------------- C31 ---------------------------------- *)
\* C31: whenever the prediction system triggers a jump, Player.isJumping is
\* false at that moment, so that Player.jump starts a jump as well, for
\* every duration of the jump animation and every order of the two reset
\* timers
C31_PlayerJumpsToo ==
    [][JumpTriggers => ~playerIsJumping]_vars

====
